---------------------------- MODULE Spec2Model ----------------------------
(***************************************************************************)
(* Model of eventsourcing/system/ray.py: the RayRunner that starts a       *)
(* system of process applications as Ray actors, and one RayProcess actor  *)
(* with its three threads (process_notifications, process_events,          *)
(* push_prompts) over two bounded queues.                                  *)
(*                                                                         *)
(* Spec / FairSpec: one RayProcess actor following the upstreams in        *)
(* Upstreams, from the state after init() onwards.                         *)
(* OutboundSpec: the outbound side of that actor (enqueue_prompt, the      *)
(* Pusher and stop()) while its upstream logs stay empty.                  *)
(* RunnerSpec: RayRunner.start() and RayRunner.call() over the actors of   *)
(* a small system.                                                         *)
(***************************************************************************)
EXTENDS Naturals, Sequences, FiniteSets

\* ------------------------------------------------------------------------
\* Bounds of the model
\* ------------------------------------------------------------------------

\* Number of notifications the notification log of upstream "A" may come to hold.
MaxN == 2

\* Number of notifications the notification log of upstream "B" may come to hold.
MaxNB == 1

\* Capacity of upstream_event_queue (Queue(maxsize=100) in the program,
\* scaled down so that a round can hold more than the queue).
EventQueueMaxSize == 1

\* Capacity of push_prompt_queue (Queue(maxsize=100) in the program).
PromptQueueMaxSize == 1

\* How many times process_upstream_event may raise in one behaviour.
MaxFaults == 1

\* How many new events one call of process_upstream_event may return.
MaxNewEvents == 2

\* Capacity of push_prompt_queue in the specification of the outbound side
\* (OutboundSpec), where prompts queue up behind one another.
OutboundQueueMaxSize == 2

\* How many prompts the process application may publish to enqueue_prompt.
MaxPublished == 3

\* Names of the upstream processes the actor follows (upstream_logs.keys()).
Upstreams == {"A", "B"}

\* Names of its downstream processes, in the order of downstream_processes.items().
DownstreamOrder == << "D", "E" >>
Downstreams == {DownstreamOrder[i] : i \in 1..Len(DownstreamOrder)}

LogBound(u) == IF u = "A" THEN MaxN ELSE MaxNB
NotificationIds == 1..(IF MaxN > MaxNB THEN MaxN ELSE MaxNB)
Dependencies == Upstreams \X NotificationIds

VARIABLES
    \* --- environment of the actor
    notification_log,      \* [Upstreams -> 0..MaxN]: ids 1..n are in the upstream's log
    causal_dependencies,   \* [Dependencies -> SUBSET Dependencies]: declared by each notification
    tracking,              \* [Upstreams -> 0..MaxN]: durable tracking position
    faults,                \* number of failures of process_upstream_event so far
    \* --- fields of RayProcess
    reader_position,       \* [Upstreams -> 0..MaxN]: process.readers[name].position
    upstream_event_queue,  \* Seq of [id, upstream_name]
    push_prompt_queue,     \* Seq of "Prompt" | "None" | a published prompt
    prompt_queue_maxsize,  \* maxsize of push_prompt_queue, fixed at construction
    prompted_names,        \* SUBSET Upstreams
    has_been_prompted,     \* Event
    has_been_stopped,      \* Event
    event_reading_lock,    \* "free" | "puller" | "processor"
    subscribed,            \* enqueue_prompt is subscribed to the process's prompts
    running,               \* run() has started the three threads
    \* --- thread process_notifications (the Puller)
    pullerPc,
    is_timeout,
    round_names,           \* names of this round still to be read
    pullerUpstream,        \* upstream_name being read, or "-"
    pullerId,              \* id of the notification in hand, or 0
    \* --- thread process_events (the Processor)
    processorPc,
    item,                  \* the item taken from upstream_event_queue, or NoItem
    new_events,            \* number of events process_upstream_event returned (0 once used)
    \* --- thread push_prompts (the Pusher)
    pusherPc,
    pusherPrompt,          \* the item taken from push_prompt_queue, or "-"
    pusherTodo,            \* Seq of the downstreams still to be prompted in this fan-out
    prompt_response_ids,   \* downstreams whose prompt() call is not yet acknowledged
    \* --- actor method stop()
    stopPc,
    \* --- prompts published by the process application (to enqueue_prompt)
    published,             \* how many were put on push_prompt_queue
    fanned_out,            \* Seq of those whose fan-out the Pusher has begun
    \* --- history, kept while no failure has occurred (faults = 0)
    handed,                \* [Upstreams -> Seq(ids)]: ids passed to process_upstream_event
    enqueued,              \* [Upstreams -> Seq(ids)]: ids put on upstream_event_queue
    \* --- RayRunner.start()
    runnerPc,
    ray_processes,         \* keys (process_name, pipeline_id) of the spawned actors
    mailbox,               \* [ActorKeys -> Seq of "init" | "run"]: calls submitted, not yet executed
    actorState,            \* [ActorKeys -> "none" | "created" | "initialized" | "running"]
    init_ids,              \* actors whose init.remote() was submitted
    run_ids,               \* actors whose run.remote() was submitted
    upstream_logs,         \* [ActorKeys -> SUBSET ActorKeys]: actors whose logs init() was given
    downstream_processes,  \* [ActorKeys -> SUBSET ActorKeys]: handles init() was given
    prompt_delivered,      \* actors on which a peer's Pusher has invoked prompt()
    config,                \* what start() finds configured
    \* --- RayRunner.call() and RayProcess.call()
    callPc,                \* "idle" | "submitted" | "returned" | "raised"
    call_target,           \* key of the actor called, or NoActor
    call_attempts,         \* attempts of RayProcess.call made under its retry decorator
    method_invocations,    \* times the method of the process application was invoked
    call_error             \* the last error an attempt raised, or "-"

\* The capacity of the outbound queue and the count of published prompts.
hookVars == << prompt_queue_maxsize, published >>

actorVars ==
    << notification_log, causal_dependencies, tracking, faults, reader_position,
       upstream_event_queue, push_prompt_queue, prompted_names, has_been_prompted,
       has_been_stopped, event_reading_lock, subscribed, running,
       pullerPc, is_timeout, round_names, pullerUpstream, pullerId,
       processorPc, item, new_events, pusherPc, pusherPrompt, pusherTodo, prompt_response_ids,
       stopPc, handed, enqueued, hookVars, fanned_out >>

callVars == << callPc, call_target, call_attempts, method_invocations, call_error >>

runnerVars ==
    << runnerPc, ray_processes, mailbox, actorState, init_ids, run_ids,
       upstream_logs, downstream_processes, prompt_delivered, config, callVars >>

vars == << actorVars, runnerVars >>

pullerVars == << pullerPc, is_timeout, round_names, pullerUpstream, pullerId >>
processorVars == << processorPc, item, new_events >>
pusherVars == << pusherPc, pusherPrompt, pusherTodo, prompt_response_ids >>
stopVars == << stopPc >>
logVars == << notification_log, causal_dependencies >>

NoItem == [id |-> 0, upstream_name |-> "-"]

\* The histories: a sequence of ids per upstream, extended while no failure
\* has occurred and emptied by the first failure.
NoHistory == [u \in Upstreams |-> << >>]
Recorded(h, u, k) == IF faults = 0 THEN [h EXCEPT ![u] = Append(@, k)] ELSE h

\* ------------------------------------------------------------------------
\* The system the runner starts
\* ------------------------------------------------------------------------

\* system.process_classes and pipeline_ids: process "P" is followed by "Q".
ProcessNames == {"P", "Q"}
PipelineIds == {0, 1}
ActorKeys == ProcessNames \X PipelineIds
upstream_names == [n \in ProcessNames |-> IF n = "Q" THEN {"P"} ELSE {}]
downstream_names == [n \in ProcessNames |-> IF n = "P" THEN {"Q"} ELSE {}]

\* No actor is being called.
NoActor == << "-", 0 >>
NoCall ==
    /\ callPc = "idle"
    /\ call_target = NoActor
    /\ call_attempts = 0
    /\ method_invocations = 0
    /\ call_error = "-"

\* The runner of the single-actor specifications: start() is not under way.
RunnerIdle ==
    /\ NoCall
    /\ runnerPc = "off"
    /\ ray_processes = {}
    /\ mailbox = [k \in ActorKeys |-> << >>]
    /\ actorState = [k \in ActorKeys |-> "none"]
    /\ init_ids = {}
    /\ run_ids = {}
    /\ upstream_logs = [k \in ActorKeys |-> {}]
    /\ downstream_processes = [k \in ActorKeys |-> {}]
    /\ prompt_delivered = {}
    /\ config = [infrastructure_class |-> TRUE, db_uri |-> TRUE, env_db_uri |-> TRUE]

\* ------------------------------------------------------------------------
\* The process application, as the actor uses it
\* ------------------------------------------------------------------------

\* The causal dependencies the notifications of a behaviour may declare:
\* either none at all, or B's first notification and A's second notification
\* both depend on A's first.
DepMaps ==
    { [n \in Dependencies |-> {}],
      [n \in Dependencies |->
          IF n \in {<<"B", 1>>, <<"A", 2>>} THEN {<<"A", 1>>} ELSE {}] }

\* process.check_causal_dependencies(upstream_name, deps): passes when every
\* declared dependency has been applied (is at or below the tracking position).
CausalDependenciesSatisfied(u, k) ==
    \A d \in causal_dependencies[<<u, k>>] : tracking[d[1]] >= d[2]

\* reader.read(): the next notification after the reader's position, if the
\* upstream log holds one.
HasNextNotification(u) == reader_position[u] < notification_log[u]
NextNotificationId(u) == reader_position[u] + 1

\* process.set_reader_position_from_tracking_records(upstream_name)
PositionFromTrackingRecords(u) == tracking[u]

\* ------------------------------------------------------------------------
\* Helpers of RayProcess
\* ------------------------------------------------------------------------

\* reset_readers(): every reader back to its last tracking position.
\* (ResetReadersStale: the readers left where they are.)
ResetReadersStale == reader_position
reset_readers == [u \in Upstreams |-> PositionFromTrackingRecords(u)]

\* upstream_event_queue.queue.clear() under the queue's mutex.
\* (NotPurgedEventQueue: the queue left as it is.)
NotPurgedEventQueue == upstream_event_queue
PurgedEventQueue == << >>

\* Queue.put of a FIFO queue, and what Queue.get leaves in the queue.
\* (QueueNotTaken: a get that leaves the item in the queue.)
QueuePut(q, x) == Append(q, x)
QueueNotTaken(q) == q
QueueAfterGet(q) == Tail(q)

\* The names a round reads after a timeout: upstream_logs.keys().
\* (TimeoutNamesNone: a timeout round that reads no upstream.)
TimeoutNamesNone == {}
TimeoutNames == Upstreams

\* What the drain of process_notifications leaves in self.prompted_names:
\* prompted_names, self.prompted_names = self.prompted_names, set()
\* (DrainLeavesNames: a drain that takes the names without emptying the set.)
DrainLeavesNames == prompted_names
PromptedNamesAfterDrain == {}

\* The names the failure handler marks pending: upstream_logs.keys().
ResetPromptedNames == prompted_names \cup Upstreams

\* The causal-dependency check of process_notifications.
\* (CausalCheckSkipped: a round that enqueues without the check.)
CausalCheckSkipped(u, k) == TRUE
CausalCheckPasses(u, k) == CausalDependenciesSatisfied(u, k)

\* ------------------------------------------------------------------------
\* Initial state of the actor: after __init__() and init(), before run()
\* ------------------------------------------------------------------------
ActorInit ==
    /\ notification_log = [u \in Upstreams |-> 0]
    /\ causal_dependencies \in DepMaps
    /\ tracking = [u \in Upstreams |-> 0]
    /\ faults = 0
    /\ reader_position = [u \in Upstreams |-> 0]
    /\ upstream_event_queue = << >>
    /\ push_prompt_queue = << >>
    /\ published = 0
    /\ fanned_out = << >>
    /\ prompted_names = {}
    /\ has_been_prompted = FALSE
    /\ has_been_stopped = FALSE
    /\ event_reading_lock = "free"
    /\ subscribed = TRUE
    /\ running = FALSE
    /\ pullerPc = "idle"
    /\ is_timeout = FALSE
    /\ round_names = {}
    /\ pullerUpstream = "-"
    /\ pullerId = 0
    /\ processorPc = "idle"
    /\ item = NoItem
    /\ new_events = 0
    /\ pusherPc = "idle"
    /\ pusherPrompt = "-"
    /\ pusherTodo = << >>
    /\ prompt_response_ids = {}
    /\ stopPc = "idle"
    /\ handed = NoHistory
    /\ enqueued = NoHistory

\* ------------------------------------------------------------------------
\* Actor methods run() and prompt(), and the upstream logs
\* ------------------------------------------------------------------------

\* An actor executes one method call at a time: prompt() is served only
\* while no stop() call is executing.
ActorThreadFree == stopPc \in {"idle", "returned"}

\* run(): reset the readers and start the three threads.
Run ==
    /\ ~running
    /\ ActorThreadFree
    /\ running' = TRUE
    /\ reader_position' = reset_readers
    /\ pullerPc' = "loop"
    /\ processorPc' = "loop"
    /\ pusherPc' = "loop"
    /\ UNCHANGED << logVars, tracking, faults, upstream_event_queue, push_prompt_queue,
                    prompted_names, has_been_prompted, has_been_stopped,
                    event_reading_lock, subscribed, is_timeout, round_names,
                    pullerUpstream, pullerId, item, new_events, pusherPrompt,
                    pusherTodo,
                    prompt_response_ids, stopVars, handed, enqueued, hookVars,
                    fanned_out, runnerVars >>

\* prompt(prompt): a PromptToPull records the sender's name and sets the
\* event, under prompted_names_lock; any other message is ignored.
Prompt ==
    /\ ActorThreadFree
    /\ \E kind \in {"PromptToPull", "Other"}, name \in Upstreams :
          IF kind = "PromptToPull"
          THEN /\ prompted_names' = prompted_names \cup {name}
               /\ has_been_prompted' = TRUE
          ELSE UNCHANGED << prompted_names, has_been_prompted >>
    /\ UNCHANGED << logVars, tracking, faults, reader_position, upstream_event_queue,
                    push_prompt_queue, has_been_stopped, event_reading_lock,
                    subscribed, running, pullerVars, processorVars, pusherVars,
                    stopVars, handed, enqueued, hookVars, fanned_out, runnerVars >>

\* An upstream process publishes its next notification.
Publish ==
    /\ \E u \in Upstreams :
          /\ notification_log[u] < LogBound(u)
          /\ notification_log' = [notification_log EXCEPT ![u] = @ + 1]
    /\ UNCHANGED << causal_dependencies, tracking, faults, reader_position,
                    upstream_event_queue, push_prompt_queue, prompted_names,
                    has_been_prompted, has_been_stopped, event_reading_lock,
                    subscribed, running, pullerVars, processorVars, pusherVars,
                    stopVars, handed, enqueued, hookVars, fanned_out, runnerVars >>

\* ------------------------------------------------------------------------
\* Thread process_notifications (the Puller)
\* ------------------------------------------------------------------------
pullerFrame ==
    << logVars, tracking, faults, push_prompt_queue, has_been_stopped,
       subscribed, running, processorVars, pusherVars, stopVars, handed, hookVars,
       fanned_out, runnerVars >>

\* while not self.has_been_stopped.is_set(): the loop ends when the event is set.
PullerLoop ==
    /\ pullerPc = "loop"
    /\ has_been_stopped
    /\ pullerPc' = "done"
    /\ UNCHANGED << pullerFrame, reader_position, upstream_event_queue, prompted_names,
                    has_been_prompted, event_reading_lock, is_timeout, round_names,
                    pullerUpstream, pullerId, enqueued >>

\* self.has_been_prompted.wait(timeout=1) returns: whether the event is set.
\* (The wait may have begun before a stop; the stop check follows it.)
PullerWait ==
    /\ pullerPc = "loop"
    /\ is_timeout' = ~has_been_prompted
    /\ pullerPc' = "check"
    /\ UNCHANGED << pullerFrame, reader_position, upstream_event_queue, prompted_names,
                    has_been_prompted, event_reading_lock, round_names,
                    pullerUpstream, pullerId, enqueued >>

\* The stop check after the wait; after a timeout the round reads every upstream.
PullerCheckStopped ==
    /\ pullerPc = "check"
    /\ IF has_been_stopped
       THEN /\ pullerPc' = "done"
            /\ is_timeout' = FALSE
            /\ UNCHANGED round_names
       ELSE IF is_timeout
       THEN /\ round_names' = TimeoutNames
            /\ pullerPc' = "lock"
            /\ UNCHANGED is_timeout
       ELSE /\ pullerPc' = "drain"
            /\ UNCHANGED << round_names, is_timeout >>
    /\ UNCHANGED << pullerFrame, reader_position, upstream_event_queue, prompted_names,
                    has_been_prompted, event_reading_lock,
                    pullerUpstream, pullerId, enqueued >>

\* with self.prompted_names_lock: clear the event, take the prompted names.
PullerDrain ==
    /\ pullerPc = "drain"
    /\ has_been_prompted' = FALSE
    /\ round_names' = prompted_names
    /\ prompted_names' = PromptedNamesAfterDrain
    /\ pullerPc' = "lock"
    /\ UNCHANGED << pullerFrame, reader_position, upstream_event_queue,
                    event_reading_lock, is_timeout, pullerUpstream, pullerId,
                    enqueued >>

\* with self.event_reading_lock:
PullerLock ==
    /\ pullerPc = "lock"
    /\ event_reading_lock = "free"
    /\ event_reading_lock' = "puller"
    /\ pullerPc' = "round"
    /\ UNCHANGED << pullerFrame, reader_position, upstream_event_queue, prompted_names,
                    has_been_prompted, is_timeout, round_names, pullerUpstream,
                    pullerId, enqueued >>

\* for prompted_name in prompted_names: ... reader.read(); the lock is released
\* when the names are exhausted.
PullerNextName ==
    /\ pullerPc = "round"
    /\ IF round_names = {}
       THEN /\ event_reading_lock' = "free"
            /\ pullerPc' = "loop"
            /\ is_timeout' = FALSE
            /\ UNCHANGED << round_names, pullerUpstream >>
       ELSE /\ \E u \in round_names :
                  /\ round_names' = round_names \ {u}
                  /\ pullerUpstream' = u
            /\ pullerPc' = "read"
            /\ UNCHANGED << event_reading_lock, is_timeout >>
    /\ UNCHANGED << pullerFrame, reader_position, upstream_event_queue, prompted_names,
                    has_been_prompted, pullerId, enqueued >>

\* for notification in notifications: check_causal_dependencies(...). A failed
\* check raises in the thread: the lock is released and the thread ends.
PullerRead ==
    /\ pullerPc = "read"
    /\ IF ~HasNextNotification(pullerUpstream)
       THEN /\ pullerPc' = "round"
            /\ pullerUpstream' = "-"
            /\ UNCHANGED << pullerId, event_reading_lock >>
       ELSE IF CausalCheckPasses(pullerUpstream, NextNotificationId(pullerUpstream))
       THEN /\ pullerId' = NextNotificationId(pullerUpstream)
            /\ pullerPc' = "put"
            /\ UNCHANGED << pullerUpstream, event_reading_lock >>
       ELSE /\ event_reading_lock' = "free"
            /\ pullerPc' = "crashed"
            /\ UNCHANGED << pullerUpstream, pullerId >>
    /\ UNCHANGED << pullerFrame, reader_position, upstream_event_queue, prompted_names,
                    has_been_prompted, is_timeout, round_names, enqueued >>

\* self.upstream_event_queue.put((event, notification["id"], upstream_name)),
\* blocking while the queue is full.
PullerPut ==
    /\ pullerPc = "put"
    /\ Len(upstream_event_queue) < EventQueueMaxSize
    /\ upstream_event_queue' =
          QueuePut(upstream_event_queue,
                   [id |-> pullerId, upstream_name |-> pullerUpstream])
    /\ reader_position' = [reader_position EXCEPT ![pullerUpstream] = pullerId]
    /\ enqueued' = Recorded(enqueued, pullerUpstream, pullerId)
    /\ pullerId' = 0
    /\ pullerPc' = "read"
    /\ UNCHANGED << pullerFrame, prompted_names, has_been_prompted, event_reading_lock,
                    is_timeout, round_names, pullerUpstream >>

Puller ==
    \/ PullerLoop
    \/ PullerWait
    \/ PullerCheckStopped
    \/ PullerDrain
    \/ PullerLock
    \/ PullerNextName
    \/ PullerRead
    \/ PullerPut

\* ------------------------------------------------------------------------
\* Thread process_events (the Processor)
\* ------------------------------------------------------------------------
processorFrame ==
    << logVars, has_been_stopped, subscribed, running, pullerVars, pusherVars,
       stopVars, hookVars, fanned_out, runnerVars >>

\* while not self.has_been_stopped.is_set(), and the stop check after a get
\* that timed out (Empty): the loop ends when the event is set.
ProcessorLoop ==
    /\ UNCHANGED new_events
    /\ processorPc = "loop"
    /\ has_been_stopped
    /\ processorPc' = "done"
    /\ UNCHANGED << processorFrame, tracking, faults, reader_position,
                    upstream_event_queue, push_prompt_queue, prompted_names,
                    has_been_prompted, event_reading_lock, item, handed, enqueued >>

\* item = self.upstream_event_queue.get(timeout=1) returns an item. (The get
\* may have begun before a stop; the stop check follows it.)
ProcessorGet ==
    /\ UNCHANGED new_events
    /\ processorPc = "loop"
    /\ upstream_event_queue # << >>
    /\ item' = Head(upstream_event_queue)
    /\ upstream_event_queue' = QueueAfterGet(upstream_event_queue)
    /\ processorPc' = "got"
    /\ UNCHANGED << processorFrame, tracking, faults, reader_position,
                    push_prompt_queue, prompted_names, has_been_prompted,
                    event_reading_lock, handed, enqueued >>

\* task_done(), then the stop check before the item is processed.
ProcessorGot ==
    /\ UNCHANGED new_events
    /\ processorPc = "got"
    /\ IF has_been_stopped
       THEN /\ processorPc' = "done"
            /\ item' = NoItem
       ELSE /\ processorPc' = "process"
            /\ UNCHANGED item
    /\ UNCHANGED << processorFrame, tracking, faults, reader_position,
                    upstream_event_queue, push_prompt_queue, prompted_names,
                    has_been_prompted, event_reading_lock, handed, enqueued >>

\* if new_events: whether the Processor goes on to put a Prompt.
\* (EmitsPromptAlways: a Prompt whatever process_upstream_event returned.)
EmitsPromptAlways(n) == TRUE
EmitsPrompt(n) == n > 0

\* new_events = process_upstream_event(...) returns: the tracking position
\* advances to the notification's id; the list returned may be empty.
ProcessorApply ==
    /\ processorPc = "process"
    /\ handed' = Recorded(handed, item.upstream_name, item.id)
    /\ tracking' = [tracking EXCEPT ![item.upstream_name] = item.id]
    /\ item' = NoItem
    /\ \E n \in 0..MaxNewEvents :
          /\ new_events' = n
          /\ processorPc' = IF EmitsPrompt(n) THEN "put_prompt" ELSE "loop"
    /\ UNCHANGED << processorFrame, faults, reader_position, upstream_event_queue,
                    push_prompt_queue, prompted_names, has_been_prompted,
                    event_reading_lock, enqueued >>

\* process_upstream_event(...) raises: except Exception.
ProcessorApplyFails ==
    /\ UNCHANGED new_events
    /\ processorPc = "process"
    /\ faults < MaxFaults
    /\ faults' = faults + 1
    /\ handed' = NoHistory
    /\ enqueued' = NoHistory
    /\ processorPc' = "fail_lock"
    /\ UNCHANGED << processorFrame, tracking, reader_position, upstream_event_queue,
                    push_prompt_queue, prompted_names, has_been_prompted,
                    event_reading_lock, item >>

\* Lock.acquire() of event_reading_lock by the failure handler.
\* (ResetEntersUnlocked: a handler that does not wait for the lock.)
ResetEntersUnlocked == TRUE
ResetMayEnter == event_reading_lock = "free"

\* with self.event_reading_lock: (in the failure handler)
ProcessorFailLock ==
    /\ UNCHANGED new_events
    /\ processorPc = "fail_lock"
    /\ ResetMayEnter
    /\ event_reading_lock' = "processor"
    /\ processorPc' = "reset"
    /\ UNCHANGED << processorFrame, tracking, faults, reader_position,
                    upstream_event_queue, push_prompt_queue, prompted_names,
                    has_been_prompted, item, handed, enqueued >>

\* The body of the failure handler: reset_readers(), clear the event queue,
\* mark every upstream as prompted and set the event.
ProcessorReset ==
    /\ UNCHANGED new_events
    /\ processorPc = "reset"
    /\ reader_position' = reset_readers
    /\ upstream_event_queue' = PurgedEventQueue
    /\ prompted_names' = ResetPromptedNames
    /\ has_been_prompted' = TRUE
    /\ processorPc' = "unlock"
    /\ UNCHANGED << processorFrame, tracking, faults, push_prompt_queue,
                    event_reading_lock, item, handed, enqueued >>

\* Leaving the with block releases event_reading_lock; the loop goes on.
ProcessorUnlock ==
    /\ UNCHANGED new_events
    /\ processorPc = "unlock"
    /\ event_reading_lock' = "free"
    /\ item' = NoItem
    /\ processorPc' = "loop"
    /\ UNCHANGED << processorFrame, tracking, faults, reader_position,
                    upstream_event_queue, push_prompt_queue, prompted_names,
                    has_been_prompted, handed, enqueued >>

\* self.push_prompt_queue.put(prompt), blocking while the queue is full.
ProcessorPutPrompt ==
    /\ processorPc = "put_prompt"
    /\ Len(push_prompt_queue) < prompt_queue_maxsize
    /\ push_prompt_queue' = QueuePut(push_prompt_queue, "Prompt")
    /\ new_events' = 0
    /\ processorPc' = "loop"
    /\ UNCHANGED << processorFrame, tracking, faults, reader_position,
                    upstream_event_queue, prompted_names, has_been_prompted,
                    event_reading_lock, item, handed, enqueued >>

Processor ==
    \/ ProcessorLoop
    \/ ProcessorGet
    \/ ProcessorGot
    \/ ProcessorApply
    \/ ProcessorApplyFails
    \/ ProcessorFailLock
    \/ ProcessorReset
    \/ ProcessorUnlock
    \/ ProcessorPutPrompt

\* ------------------------------------------------------------------------
\* Thread push_prompts (the Pusher) and the downstream actors
\* ------------------------------------------------------------------------
pusherFrame ==
    << logVars, tracking, faults, reader_position, upstream_event_queue,
       prompted_names, has_been_prompted, has_been_stopped, event_reading_lock,
       subscribed, running, pullerVars, processorVars, stopVars, handed, enqueued,
       hookVars, runnerVars >>

\* while not self.has_been_stopped.is_set(), and the stop check after a get
\* that timed out (Empty): the loop ends when the event is set.
PusherLoop ==
    /\ UNCHANGED fanned_out
    /\ pusherPc = "loop"
    /\ has_been_stopped
    /\ pusherPc' = "done"
    /\ UNCHANGED << pusherFrame, push_prompt_queue, pusherPrompt, pusherTodo,
                    prompt_response_ids >>

\* prompt = self.push_prompt_queue.get(timeout=10) returns an item. (The get
\* may have begun before a stop; the stop check follows it.)
PusherGet ==
    /\ UNCHANGED fanned_out
    /\ pusherPc = "loop"
    /\ push_prompt_queue # << >>
    /\ pusherPrompt' = Head(push_prompt_queue)
    /\ push_prompt_queue' = QueueAfterGet(push_prompt_queue)
    /\ pusherPc' = "got"
    /\ UNCHANGED << pusherFrame, pusherTodo, prompt_response_ids >>

\* The prompts the process application publishes, in the order it publishes them.
PublishedPrompt(i) ==
    << "Published1", "Published2", "Published3", "Published4", "Published5" >>[i]
PublishedPrompts == {PublishedPrompt(i) : i \in 1..MaxPublished}

\* The published prompts fanned out so far, with one more.
FannedOutWith(x) == IF x \in PublishedPrompts THEN Append(fanned_out, x) ELSE fanned_out

\* if self.has_been_stopped.is_set(): break, after the get of push_prompts.
\* (StopNotSeenAfterGet: the item taken is fanned out whatever the stop event.)
StopNotSeenAfterGet == FALSE
StopSeenAfterGet == has_been_stopped

\* task_done(), the stop check, then the first ray_process.prompt.remote(prompt)
\* of the fan-out.
PusherGot ==
    /\ pusherPc = "got"
    /\ IF StopSeenAfterGet
       THEN /\ pusherPc' = "done"
            /\ pusherPrompt' = "-"
            /\ UNCHANGED << pusherTodo, prompt_response_ids, fanned_out >>
       ELSE /\ prompt_response_ids' = {Head(DownstreamOrder)}
            /\ pusherTodo' = Tail(DownstreamOrder)
            /\ pusherPc' = IF Tail(DownstreamOrder) = << >> THEN "await" ELSE "fanout"
            /\ fanned_out' = FannedOutWith(pusherPrompt)
            /\ UNCHANGED pusherPrompt
    /\ UNCHANGED << pusherFrame, push_prompt_queue >>

\* The rest of the fan-out loop: after each call, if the stop event is set the
\* loop is left (pusherTodo keeps the downstreams not prompted); otherwise the
\* next downstream is prompted.
PusherSend ==
    /\ UNCHANGED fanned_out
    /\ pusherPc = "fanout"
    /\ IF has_been_stopped
       THEN /\ pusherPc' = "await"
            /\ UNCHANGED << pusherTodo, prompt_response_ids >>
       ELSE /\ prompt_response_ids' = prompt_response_ids \cup {Head(pusherTodo)}
            /\ pusherTodo' = Tail(pusherTodo)
            /\ pusherPc' = IF Tail(pusherTodo) = << >> THEN "await" ELSE "fanout"
    /\ UNCHANGED << pusherFrame, push_prompt_queue, pusherPrompt >>

\* ray.get(prompt_response_ids): waits for every call of the round.
\* (AcknowledgementsNotAwaited: the Pusher goes on without the wait.)
AcknowledgementsNotAwaited == TRUE
AllAcknowledged == prompt_response_ids = {}

PusherAwait ==
    /\ UNCHANGED fanned_out
    /\ pusherPc = "await"
    /\ AllAcknowledged
    /\ pusherPrompt' = "-"
    /\ pusherTodo' = << >>
    /\ pusherPc' = "loop"
    /\ UNCHANGED << pusherFrame, push_prompt_queue, prompt_response_ids >>

\* enqueue_prompt(prompts): the handler init() subscribed to the prompts the
\* process application publishes. It runs in the actor method (call) that
\* made the application publish, so not while stop() executes, and it puts
\* prompts[0] on push_prompt_queue (the action is the put going through).
EnqueuePrompt ==
    /\ running
    /\ subscribed
    /\ ActorThreadFree
    /\ published < MaxPublished
    /\ Len(push_prompt_queue) < prompt_queue_maxsize
    /\ push_prompt_queue' = QueuePut(push_prompt_queue, PublishedPrompt(published + 1))
    /\ published' = published + 1
    /\ UNCHANGED << logVars, tracking, faults, reader_position, upstream_event_queue,
                    prompted_names, has_been_prompted, has_been_stopped,
                    event_reading_lock, subscribed, running, pullerVars, processorVars,
                    pusherVars, stopVars, handed, enqueued, prompt_queue_maxsize,
                    fanned_out, runnerVars >>

\* A downstream actor has executed prompt() and the call is acknowledged.
DownstreamAck ==
    /\ UNCHANGED fanned_out
    /\ \E d \in prompt_response_ids :
          prompt_response_ids' = prompt_response_ids \ {d}
    /\ UNCHANGED << pusherFrame, push_prompt_queue, pusherPc, pusherPrompt, pusherTodo >>

Pusher ==
    \/ PusherLoop
    \/ PusherGet
    \/ PusherGot
    \/ PusherSend
    \/ PusherAwait

\* ------------------------------------------------------------------------
\* Actor method stop()
\* ------------------------------------------------------------------------
stopFrame ==
    << logVars, tracking, faults, reader_position, upstream_event_queue,
       prompted_names, event_reading_lock, running, pullerVars, processorVars,
       pusherVars, handed, enqueued, hookVars, fanned_out, runnerVars >>

\* stop() is called on the running actor: self.has_been_stopped.set()
StopCall ==
    /\ running
    /\ ActorThreadFree
    /\ has_been_stopped' = TRUE
    /\ stopPc' = "put_none"
    /\ UNCHANGED << stopFrame, push_prompt_queue, has_been_prompted, subscribed >>

\* self.push_prompt_queue.put(None), blocking while the queue is full.
StopPutNone ==
    /\ stopPc = "put_none"
    /\ Len(push_prompt_queue) < prompt_queue_maxsize
    /\ push_prompt_queue' = QueuePut(push_prompt_queue, "None")
    /\ stopPc' = "set_prompted"
    /\ UNCHANGED << stopFrame, has_been_prompted, has_been_stopped, subscribed >>

\* self.has_been_prompted.set()
StopSetPrompted ==
    /\ stopPc = "set_prompted"
    /\ has_been_prompted' = TRUE
    /\ stopPc' = "join"
    /\ UNCHANGED << stopFrame, push_prompt_queue, has_been_stopped, subscribed >>

\* The two joins (each returns when its thread has ended or after 3 seconds),
\* then unsubscribe(handler=self.enqueue_prompt, ...); stop() returns.
StopJoinUnsubscribe ==
    /\ stopPc = "join"
    /\ subscribed' = FALSE
    /\ stopPc' = "returned"
    /\ UNCHANGED << stopFrame, push_prompt_queue, has_been_prompted, has_been_stopped >>

Stop ==
    \/ StopPutNone
    \/ StopSetPrompted
    \/ StopJoinUnsubscribe

\* ------------------------------------------------------------------------
\* The actor
\* ------------------------------------------------------------------------
ActorNext ==
    \/ Run
    \/ Prompt
    \/ Publish
    \/ Puller
    \/ Processor
    \/ Pusher
    \/ DownstreamAck
    \/ StopCall
    \/ Stop

\* ------------------------------------------------------------------------
\* RayRunner.start() and the actors it starts
\* ------------------------------------------------------------------------

\* What start() may find configured: whether an infrastructure class is set,
\* and whether DB_URI is given to the runner or found in the environment.
Configs ==
    [infrastructure_class : BOOLEAN, db_uri : BOOLEAN, env_db_uri : BOOLEAN]

\* Before start(): no actor exists. The single actor of the other
\* specifications is idle.
RunnerInit ==
    /\ NoCall
    /\ runnerPc = "start"
    /\ config \in Configs
    /\ ray_processes = {}
    /\ mailbox = [k \in ActorKeys |-> << >>]
    /\ actorState = [k \in ActorKeys |-> "none"]
    /\ init_ids = {}
    /\ run_ids = {}
    /\ upstream_logs = [k \in ActorKeys |-> {}]
    /\ downstream_processes = [k \in ActorKeys |-> {}]
    /\ prompt_delivered = {}

\* The checks of start(): an infrastructure class for the process classes
\* (ProgrammingError otherwise), and DB_URI (the assert).
InfrastructureConfigured(c) == c.infrastructure_class

\* db_uri = self.db_uri or os.environ.get("DB_URI"), and the assert on it.
\* (DbUriNotChecked: a start() that goes on without a DB_URI.)
DbUriNotChecked(c) == TRUE
DbUriResolved(c) == c.db_uri \/ c.env_db_uri

StartPreflight ==
    /\ runnerPc = "start"
    /\ runnerPc' = IF InfrastructureConfigured(config) /\ DbUriResolved(config)
                   THEN "spawn"
                   ELSE "failed"
    /\ UNCHANGED << ray_processes, mailbox, actorState, init_ids, run_ids,
                    upstream_logs, downstream_processes, prompt_delivered, config,
                    actorVars, callVars >>

\* RayProcess.remote(...) for each pipeline id and process name.
StartSpawn ==
    /\ runnerPc = "spawn"
    /\ IF ray_processes = ActorKeys
       THEN /\ runnerPc' = "init"
            /\ UNCHANGED << ray_processes, actorState >>
       ELSE /\ \E k \in ActorKeys \ ray_processes :
                  /\ ray_processes' = ray_processes \cup {k}
                  /\ actorState' = [actorState EXCEPT ![k] = "created"]
            /\ UNCHANGED runnerPc
    /\ UNCHANGED << mailbox, init_ids, run_ids, upstream_logs, downstream_processes,
                    prompt_delivered, config, actorVars, callVars >>

\* The upstream logs and downstream handles start() builds for the actor k:
\* self.ray_processes[(name, pipeline_id)] for each neighbour's name.
\* (DownstreamProcessesOfAnyPipeline: handles taken from every pipeline.)
UpstreamLogsOf(k) == {<<n, k[2]>> : n \in upstream_names[k[1]]}
DownstreamProcessesOfAnyPipeline(k) ==
    {<<n, i>> : n \in downstream_names[k[1]], i \in PipelineIds}
DownstreamProcessesOf(k) == {<<n, k[2]>> : n \in downstream_names[k[1]]}

\* ray_process.init.remote(upstream_logs, downstream_processes) for each actor.
StartInitRemote ==
    /\ runnerPc = "init"
    /\ IF init_ids = ray_processes
       THEN /\ runnerPc' = "get_init"
            /\ UNCHANGED << init_ids, mailbox >>
       ELSE /\ \E k \in ray_processes \ init_ids :
                  /\ init_ids' = init_ids \cup {k}
                  /\ mailbox' = [mailbox EXCEPT ![k] = Append(@, "init")]
            /\ UNCHANGED runnerPc
    /\ UNCHANGED << ray_processes, actorState, run_ids, upstream_logs,
                    downstream_processes, prompt_delivered, config, actorVars, callVars >>

\* ray.get(init_ids): returns when every init() call has completed.
InitsNotAwaited == TRUE
InitsCompleted == \A k \in init_ids : actorState[k] \in {"initialized", "running"}

StartGetInit ==
    /\ runnerPc = "get_init"
    /\ InitsCompleted
    /\ runnerPc' = "run"
    /\ UNCHANGED << ray_processes, mailbox, actorState, init_ids, run_ids,
                    upstream_logs, downstream_processes, prompt_delivered, config,
                    actorVars, callVars >>

\* ray_process.run.remote() for each actor.
StartRunRemote ==
    /\ runnerPc = "run"
    /\ IF run_ids = ray_processes
       THEN /\ runnerPc' = "get_run"
            /\ UNCHANGED << run_ids, mailbox >>
       ELSE /\ \E k \in ray_processes \ run_ids :
                  /\ run_ids' = run_ids \cup {k}
                  /\ mailbox' = [mailbox EXCEPT ![k] = Append(@, "run")]
            /\ UNCHANGED runnerPc
    /\ UNCHANGED << ray_processes, actorState, init_ids, upstream_logs,
                    downstream_processes, prompt_delivered, config, actorVars, callVars >>

\* ray.get(run_ids): returns when every run() call has completed.
StartGetRun ==
    /\ runnerPc = "get_run"
    /\ \A k \in run_ids : actorState[k] = "running"
    /\ runnerPc' = "started"
    /\ UNCHANGED << ray_processes, mailbox, actorState, init_ids, run_ids,
                    upstream_logs, downstream_processes, prompt_delivered, config,
                    actorVars, callVars >>

\* An actor executes the calls submitted to it one at a time, in order: init().
ActorExecInit ==
    /\ \E k \in ActorKeys :
          /\ mailbox[k] # << >>
          /\ Head(mailbox[k]) = "init"
          /\ mailbox' = [mailbox EXCEPT ![k] = Tail(@)]
          /\ actorState' = [actorState EXCEPT ![k] = "initialized"]
          /\ upstream_logs' = [upstream_logs EXCEPT ![k] = UpstreamLogsOf(k)]
          /\ downstream_processes' =
                [downstream_processes EXCEPT ![k] = DownstreamProcessesOf(k)]
    /\ UNCHANGED << runnerPc, ray_processes, init_ids, run_ids, prompt_delivered,
                    config, actorVars, callVars >>

\* An actor executes run(): its three threads are started.
ActorExecRun ==
    /\ \E k \in ActorKeys :
          /\ mailbox[k] # << >>
          /\ Head(mailbox[k]) = "run"
          /\ mailbox' = [mailbox EXCEPT ![k] = Tail(@)]
          /\ actorState' = [actorState EXCEPT ![k] = "running"]
    /\ UNCHANGED << runnerPc, ray_processes, init_ids, run_ids, upstream_logs,
                    downstream_processes, prompt_delivered, config, actorVars, callVars >>

\* The Pusher of a running actor invokes prompt() on one of its downstream handles.
ActorPromptsDownstream ==
    /\ \E k \in ActorKeys :
          /\ actorState[k] = "running"
          /\ \E d \in downstream_processes[k] :
                prompt_delivered' = prompt_delivered \cup {d}
    /\ UNCHANGED << runnerPc, ray_processes, mailbox, actorState, init_ids, run_ids,
                    upstream_logs, downstream_processes, config, actorVars, callVars >>

\* The retry decorator of RayProcess.call: after an OperationalError the call
\* is attempted again while fewer than max_attempts attempts were made.
MaxAttempts == 10
RetryAgain(n) == n < MaxAttempts

\* if self.process: the actor has its process application, which init()
\* constructs. (ProcessAssumed: a call that does not look for it.)
ProcessAssumed(k) == TRUE
ProcessExists(k) == actorState[k] \in {"initialized", "running"}

\* What one invocation of the method of the process application does.
MethodOutcomes == {"ok", "OperationalError", "OtherError"}

\* RayRunner.call(process_name, pipeline_id, method_name): call.remote() is
\* submitted to the actor, which must have been spawned.
RunnerCall ==
    /\ callPc = "idle"
    /\ \E k \in ray_processes :
          /\ call_target' = k
          /\ mailbox' = [mailbox EXCEPT ![k] = Append(@, "call")]
    /\ callPc' = "submitted"
    /\ UNCHANGED << runnerPc, ray_processes, actorState, init_ids, run_ids,
                    upstream_logs, downstream_processes, prompt_delivered, config,
                    call_attempts, method_invocations, call_error, actorVars >>

\* The call has ended: it leaves the actor, and ray.get(ray_id) returns or raises.
CallEnds(pc) ==
    /\ callPc' = pc
    /\ mailbox' = [mailbox EXCEPT ![call_target] = Tail(@)]

\* One attempt of RayProcess.call, executed by the actor when the call is the
\* first in its mailbox. Before init() the actor has no attribute process: the
\* attempt raises an error that is not OperationalError, and nothing is invoked.
ActorCallAttempt ==
    /\ callPc = "submitted"
    /\ mailbox[call_target] # << >>
    /\ Head(mailbox[call_target]) = "call"
    /\ call_attempts' = call_attempts + 1
    /\ IF ~ProcessExists(call_target)
       THEN /\ call_error' = "AttributeError"
            /\ CallEnds("raised")
            /\ UNCHANGED method_invocations
       ELSE /\ method_invocations' = method_invocations + 1
            /\ \E outcome \in MethodOutcomes :
                  CASE outcome = "ok" ->
                         /\ CallEnds("returned")
                         /\ UNCHANGED call_error
                    [] outcome = "OtherError" ->
                         /\ call_error' = "OtherError"
                         /\ CallEnds("raised")
                    [] outcome = "OperationalError" ->
                         /\ call_error' = "OperationalError"
                         /\ IF RetryAgain(call_attempts')
                            THEN UNCHANGED << callPc, mailbox >>
                            ELSE CallEnds("raised")
    /\ UNCHANGED << runnerPc, ray_processes, actorState, init_ids, run_ids,
                    upstream_logs, downstream_processes, prompt_delivered, config,
                    call_target, actorVars >>

RunnerNext ==
    \/ RunnerCall
    \/ ActorCallAttempt
    \/ StartPreflight
    \/ StartSpawn
    \/ StartInitRemote
    \/ StartGetInit
    \/ StartRunRemote
    \/ StartGetRun
    \/ ActorExecInit
    \/ ActorExecRun
    \/ ActorPromptsDownstream

\* ------------------------------------------------------------------------
\* Specifications
\* ------------------------------------------------------------------------

\* One actor, from init() onwards, under every interleaving.
Init == ActorInit /\ prompt_queue_maxsize = PromptQueueMaxSize /\ RunnerIdle

Next == ActorNext

Spec == Init /\ [][Next]_vars

\* A running actor that is never stopped, with its threads and the downstream
\* actors scheduled fairly.
FairNext ==
    \/ Run
    \/ Prompt
    \/ Publish
    \/ PullerWait
    \/ PullerCheckStopped
    \/ PullerDrain
    \/ PullerLock
    \/ PullerNextName
    \/ PullerRead
    \/ PullerPut
    \/ ProcessorGet
    \/ ProcessorGot
    \/ ProcessorApply
    \/ ProcessorApplyFails
    \/ ProcessorFailLock
    \/ ProcessorReset
    \/ ProcessorUnlock
    \/ ProcessorPutPrompt
    \/ PusherGet
    \/ PusherGot
    \/ PusherSend
    \/ PusherAwait
    \/ DownstreamAck

\* Each thread that can take a step eventually takes one (a timed wait
\* returns, a free lock or a free queue slot is eventually obtained), the
\* runner calls run(), and every prompt() call is eventually acknowledged.
FairSpec ==
    /\ Init
    /\ [][FairNext]_vars
    /\ WF_vars(Run)
    /\ WF_vars(Puller)
    /\ SF_vars(PullerLock)
    /\ WF_vars(Processor)
    /\ SF_vars(ProcessorFailLock)
    /\ WF_vars(Pusher)
    /\ WF_vars(DownstreamAck)

\* The outbound side of one actor whose upstream logs stay empty: prompts
\* published by its process application (through commands of its clients),
\* the Pusher, the downstream acknowledgements and stop().
OutboundInit ==
    /\ ActorInit
    /\ prompt_queue_maxsize = OutboundQueueMaxSize
    /\ RunnerIdle

OutboundNext ==
    \/ Run
    \/ EnqueuePrompt
    \/ PullerLoop
    \/ PullerWait
    \/ PullerCheckStopped
    \/ PullerLock
    \/ PullerNextName
    \/ PullerRead
    \/ ProcessorLoop
    \/ Pusher
    \/ DownstreamAck
    \/ StopCall
    \/ Stop

OutboundSpec == OutboundInit /\ [][OutboundNext]_vars

\* RayRunner.start() over the actors of the system.
RunnerSpecInit ==
    /\ ActorInit
    /\ prompt_queue_maxsize = PromptQueueMaxSize
    /\ causal_dependencies = [n \in Dependencies |-> {}]
    /\ RunnerInit

RunnerSpec == RunnerSpecInit /\ [][RunnerNext]_vars

\* ------------------------------------------------------------------------
\* Properties
\* ------------------------------------------------------------------------

\* No failure of process_upstream_event and no failed causal check so far.
FaultFree == faults = 0 /\ pullerPc # "crashed"

Unapplied == {n \in Dependencies : n[2] <= LogBound(n[1])}

IsCount(h) == \A i \in 1..Len(h) : h[i] = i

\* prompt() calls never cease. (While the event is set again before each wait,
\* the wait of process_notifications does not time out.)
PromptsForever == []<><<Prompt>>_vars

C3_CausalSafety ==
    processorPc = "process" =>
        \A d \in causal_dependencies[<< item.upstream_name, item.id >>] :
            tracking[d[1]] >= d[2]

\* C3 witness: after a failure and its reset, the Processor is about to pass
\* a notification of upstream B that declares a causal dependency.
C3_Witness ==
    /\ processorPc = "process"
    /\ item.upstream_name = "B"
    /\ causal_dependencies[<< item.upstream_name, item.id >>] # {}
    /\ faults > 0

\* Some loop of the actor can take a step.
LoopsCanStep == ENABLED (Puller \/ Processor \/ Pusher \/ DownstreamAck)

\* A notification is in an upstream log and not yet applied.
SomeUnapplied ==
    \E n \in Unapplied : notification_log[n[1]] >= n[2] /\ tracking[n[1]] < n[2]

\* C4: in a running actor that is never stopped, with finitely many failures
\* of process_upstream_event and fair scheduling, every notification in an
\* upstream log is eventually applied, whatever the queue capacity and the
\* number of pending notifications. Stated through what it requires of every
\* reachable state: while a notification of a log is not yet applied, some
\* loop can still take a step (no call to prompt() and no new notification
\* unblocks a loop that waits for a lock or a queue). The end of the Puller
\* thread by a failed causal check is set aside here.
C4_NoPermanentSkip ==
    (running /\ pullerPc # "crashed" /\ SomeUnapplied) => LoopsCanStep

\* The step in which the failure handler of process_events releases
\* event_reading_lock.
HandlerReleasesLock == processorPc = "unlock" /\ processorPc' # "unlock"

ReadersAtTrackingPositions ==
    /\ \A u \in Upstreams : reader_position[u] = tracking[u]
    /\ tracking[item.upstream_name] < item.id

\* C5 as claimed: when the failure handler releases the read lock, every
\* reader is at its tracking position (below the failed id for the failed
\* upstream), the event queue is empty, every upstream name is in
\* prompted_names, has_been_prompted is set, and the Processor loop goes on.
C5_ResetPostStateAsClaimed ==
    [][HandlerReleasesLock =>
          /\ ReadersAtTrackingPositions
          /\ upstream_event_queue = << >>
          /\ prompted_names = Upstreams
          /\ has_been_prompted
          /\ processorPc' = "loop"]_vars

\* The Puller has taken the prompted names for a round and waits for the lock.
PullerHoldsDrainedNames(u) == pullerPc = "lock" /\ u \in round_names

\* C5 as amended: when the failure handler releases the read lock, every
\* reader is at its tracking position (below the failed id for the failed
\* upstream), the event queue is empty, every upstream name is in
\* prompted_names or has already been taken from it by the Puller for the
\* round it is about to read, has_been_prompted is set or the Puller has
\* already consumed it for that round, and the Processor loop goes on.
C5_ResetPostState ==
    [][HandlerReleasesLock =>
          /\ ReadersAtTrackingPositions
          /\ upstream_event_queue = << >>
          /\ \A u \in Upstreams : u \in prompted_names \/ PullerHoldsDrainedNames(u)
          /\ has_been_prompted \/ pullerPc = "lock"
          /\ processorPc' = "loop"]_vars

\* C5 witness: the failure handler is about to release the read lock after a
\* failure on notification 2, and the Puller has already taken every name and
\* the signal for the round it waits to read.
C5_Witness ==
    /\ processorPc = "unlock"
    /\ item.id = 2
    /\ pullerPc = "lock"
    /\ round_names = Upstreams
    /\ prompted_names = {}
    /\ ~has_been_prompted

\* C6: a causal-dependency check that fails during a round does not end the
\* Puller: the thread process_notifications keeps running (and a reset follows).
C6_PullerSurvivesCausalViolation == pullerPc # "crashed"

NoDuplicates(h) == \A i, j \in 1..Len(h) : h[i] = h[j] => i = j

IsEnqueued(u, k) == \E i \in 1..Len(enqueued[u]) : enqueued[u][i] = k

\* C7: in a running, never stopped, fault-free and fairly scheduled actor,
\* every notification in an upstream log is eventually put on the event queue
\* once the prompt() calls have ceased (in particular when none arrives), and
\* no notification is put on the queue twice, however prompts and timeouts
\* interleave.
C7_ReadWithoutPrompts ==
    /\ [](faults = 0 => \A u \in Upstreams : NoDuplicates(enqueued[u]))
    /\ \/ PromptsForever
       \/ \A n \in Unapplied :
             (notification_log[n[1]] >= n[2]) ~> (IsEnqueued(n[1], n[2]) \/ ~FaultFree)

\* A round begun by a timeout, with no prompt pending, puts a notification on
\* the queue.
C7_Witness ==
    /\ FaultFree
    /\ pullerPc = "put"
    /\ is_timeout
    /\ prompted_names = {}
    /\ ~has_been_prompted
    /\ pullerId = 2

\* init() has completed on every actor of every pipeline.
AllInitialized == \A k \in ActorKeys : actorState[k] \in {"initialized", "running"}

\* C8: no actor runs (and no prompt() is delivered to any actor) before
\* init() has completed on every actor of every pipeline.
C8_TwoPhaseStart ==
    /\ (\E k \in ActorKeys : actorState[k] = "running") => AllInitialized
    /\ prompt_delivered # {} => AllInitialized

\* C8 witness: every init() has completed, the run() of one actor has begun
\* and its first prompt has reached a downstream actor whose run() has not.
C8_Witness ==
    /\ actorState[<< "P", 0 >>] = "running"
    /\ actorState[<< "Q", 0 >>] = "initialized"
    /\ << "Q", 0 >> \in prompt_delivered

\* Some thread of the actor, a downstream acknowledgement or the stop() call
\* in progress can take a step.
CanProgress == ENABLED (Puller \/ Processor \/ Pusher \/ DownstreamAck \/ Stop)

ThreadEnded(pc) == pc \in {"done", "crashed"}

\* C9: once the stop signal is set, each of the three loops eventually exits:
\* the actor cannot come to rest with the signal set and a loop not ended.
C9_LoopsEndAfterStop ==
    (has_been_stopped /\ ~CanProgress) =>
        /\ ThreadEnded(pullerPc)
        /\ ThreadEnded(processorPc)
        /\ ThreadEnded(pusherPc)

\* The first stop() call on the actor (enqueue_prompt is still subscribed) is
\* in progress.
FirstStopInProgress == stopPc \notin {"idle", "returned"} /\ subscribed

\* C10: every call of stop() on a running actor eventually returns: the actor
\* cannot come to rest with that call not returned.
C10_StopReturns == FirstStopInProgress => CanProgress

\* A stop() call made after an earlier stop() call has returned (enqueue_prompt
\* is already unsubscribed) is in progress.
SecondStopInProgress == stopPc \notin {"idle", "returned"} /\ ~subscribed

\* C11: stop() is idempotent: a second stop() call leaves the actor as the
\* first call left it (in particular the contents of push_prompt_queue), and
\* it returns without blocking.
C11_StopIdempotent ==
    /\ [][(SecondStopInProgress /\ stopPc' # stopPc) =>
             push_prompt_queue' = push_prompt_queue]_vars
    /\ [](SecondStopInProgress => CanProgress)

\* C12: no prompt is lost between prompt() and the drain of the Puller:
\* whenever prompted_names is not empty has_been_prompted is set; a name
\* leaves prompted_names only by the drain, which hands the whole set to the
\* round the Puller is about to read; and a name leaves the names of a round
\* only by becoming the upstream the round reads next.
C12_NoPromptLost ==
    /\ [](prompted_names # {} => has_been_prompted)
    /\ [][/\ (prompted_names \ prompted_names' # {}) =>
                  (round_names' = prompted_names /\ pullerPc' = "lock")
           /\ \A u \in round_names \ round_names' :
                  pullerUpstream' = u /\ pullerPc' = "read"]_vars

\* C12 witness: the Puller reads upstream A, whose name it drained from
\* prompted_names, while a later prompt naming B is pending with the signal set.
C12_Witness ==
    /\ pullerPc = "read"
    /\ ~is_timeout
    /\ pullerUpstream = "A"
    /\ prompted_names = {"B"}
    /\ has_been_prompted

\* A step of the Processor thread.
ProcessorStep == processorPc' # processorPc

\* C13: the Processor puts one Prompt on push_prompt_queue for an item it has
\* applied with at least one new event returned, and none otherwise: it is
\* about to put only after process_upstream_event has succeeded (the tracking
\* position has advanced) with new events; it changes the queue only by
\* appending that one Prompt, after which it is back at its loop; after an
\* empty result or a failure it is not about to put.
C13_OnePromptPerProductiveItem ==
    /\ [](processorPc = "put_prompt" <=> new_events > 0)
    /\ [][ProcessorStep =>
             /\ (processorPc' = "put_prompt") =>
                   (processorPc = "process" /\ tracking' # tracking)
             /\ (push_prompt_queue' # push_prompt_queue) =>
                   /\ processorPc = "put_prompt"
                   /\ push_prompt_queue' = Append(push_prompt_queue, "Prompt")
                   /\ processorPc' = "loop"
             /\ (processorPc = "put_prompt") =>
                   push_prompt_queue' # push_prompt_queue]_vars

\* C13 witness: the Processor has applied an item that returned two new
\* events and has put its Prompt on the queue, which held none before.
C13_Witness ==
    /\ processorPc = "loop"
    /\ tracking["A"] = 1
    /\ push_prompt_queue = << "Prompt" >>
    /\ pusherPc = "loop"
    /\ faults = 0

\* The Pusher has left the fan-out loop of a prompt and waits for the
\* acknowledgements of the round.
FanOutLeft == pusherPc = "await"

\* The published prompts are fanned out in the order they were put on the
\* queue, none skipped: the i-th fanned out is the i-th published.
FannedOutInOrder ==
    \A i \in 1..Len(fanned_out) : fanned_out[i] = PublishedPrompt(i)

\* No prompt is taken from the queue while a prompt() call of the round
\* before is not acknowledged.
NoGetBeforeAcknowledged ==
    pusherPc \in {"loop", "got"} => prompt_response_ids = {}

\* C14 as claimed: prompt() is invoked on every downstream with every prompt
\* the Pusher takes while the actor is not stopped; the next prompt is not
\* taken until every call of the round is acknowledged; prompts are fanned
\* out in the order they were put on the queue.
C14_FanOutAsClaimed ==
    /\ FanOutLeft => pusherTodo = << >>
    /\ NoGetBeforeAcknowledged
    /\ FannedOutInOrder

\* C14 as amended: prompt() is invoked on every downstream with every prompt
\* the Pusher takes, unless the stop event is set before the fan-out of that
\* prompt is complete (the downstreams not yet prompted are then left out);
\* the next prompt is not taken until every call made in the round is
\* acknowledged; prompts are fanned out in the order they were put on the
\* queue.
C14_FanOut ==
    /\ (FanOutLeft /\ ~has_been_stopped) => pusherTodo = << >>
    /\ NoGetBeforeAcknowledged
    /\ FannedOutInOrder

\* C14 witness: with two published prompts fanned out and a third waiting on
\* the queue, the Pusher waits for the acknowledgements of both downstreams.
C14_Witness ==
    /\ FanOutLeft
    /\ ~has_been_stopped
    /\ prompt_response_ids = Downstreams
    /\ Len(fanned_out) = 2
    /\ push_prompt_queue # << >>

\* C20: the None that stop() puts on push_prompt_queue is never passed to
\* prompt() of a downstream actor, however stop() and the Pusher interleave and
\* however often stop() is called: the item of a fan-out is never None; and no
\* item the Pusher holds after its get when the stop event is set is fanned out.
C20_SentinelNeverDelivered ==
    /\ []((pusherPc \in {"fanout", "await"} \/ prompt_response_ids # {}) =>
             pusherPrompt \notin {"None", "-"})
    /\ [][(pusherPc = "got" /\ has_been_stopped) =>
             (prompt_response_ids' = {} /\ fanned_out' = fanned_out)]_vars

\* C20 witness: after two stop() calls the Pusher has taken the None of the
\* first from the queue, which still holds the None of the second.
C20_Witness ==
    /\ pusherPc = "got"
    /\ pusherPrompt = "None"
    /\ push_prompt_queue = << "None" >>
    /\ has_been_stopped

\* The Puller is inside a round: from the read of its first upstream to the
\* put of the last notification of the round.
PullerInRound == pullerPc \in {"round", "read", "put"}

\* The failure handler of the Processor is resetting (it is inside its with
\* block: readers, queue purge, prompted names).
ProcessorInReset == processorPc \in {"reset", "unlock"}

\* C17: the reset of the Processor is never executed while the Puller is
\* inside a round: the two are never inside their blocks together, and while
\* the Puller is inside a round no step of the Processor moves a reader or
\* takes more from the event queue than the one item of a get.
C17_ReadResetExclusive ==
    /\ [](~(PullerInRound /\ ProcessorInReset))
    /\ [][(PullerInRound /\ ProcessorStep) =>
             /\ reader_position' = reader_position
             /\ \/ upstream_event_queue' = upstream_event_queue
                \/ /\ upstream_event_queue # << >>
                   /\ upstream_event_queue' = Tail(upstream_event_queue)]_vars

\* C17 witness: the failure handler is about to reset while the Puller, with
\* names drained for a round, waits for the lock the handler holds.
C17_Witness ==
    /\ processorPc = "reset"
    /\ event_reading_lock = "processor"
    /\ pullerPc = "lock"
    /\ round_names # {}
    /\ upstream_event_queue # << >>

\* C18: no reachable state of a running, not stopped actor has the Puller
\* blocked in the put on the full event queue while it holds
\* event_reading_lock and the Processor waiting for that lock in its failure
\* handler.
C18_NoPullerProcessorDeadlock ==
    ~ /\ running
      /\ ~has_been_stopped
      /\ pullerPc = "put"
      /\ Len(upstream_event_queue) >= EventQueueMaxSize
      /\ event_reading_lock = "puller"
      /\ processorPc = "fail_lock"

\* The actor called is executing the call (the call is the first in its
\* mailbox) and init() has not run on it.
CallOnUninitialized ==
    /\ callPc = "submitted"
    /\ mailbox[call_target] # << >>
    /\ Head(mailbox[call_target]) = "call"
    /\ actorState[call_target] = "created"

\* C15: call() on an actor whose init() has not run fails on the first
\* attempt, without retry and without invoking a method of the process; on an
\* initialized actor a method that keeps raising OperationalError is
\* attempted at most MaxAttempts times, after which the error is returned to
\* the caller; any other error is returned by the attempt that raised it.
C15_CallRetryBounded ==
    /\ [](/\ call_attempts <= MaxAttempts
          /\ method_invocations <= call_attempts
          /\ CallOnUninitialized => call_attempts = 0
          /\ (call_error = "AttributeError") =>
                (callPc = "raised" /\ call_attempts = 1 /\ method_invocations = 0)
          /\ (call_error = "OtherError") => callPc = "raised"
          /\ (callPc = "raised" /\ call_error = "OperationalError") =>
                call_attempts = MaxAttempts
          /\ (callPc = "submitted" /\ call_attempts > 0) =>
                call_error = "OperationalError")
    /\ [][(CallOnUninitialized /\ call_attempts' # call_attempts) =>
             (callPc' = "raised" /\ method_invocations' = 0)]_vars

\* C15 witness: the method raised OperationalError at each of MaxAttempts
\* attempts on an initialized actor, and the error has reached the caller.
C15_Witness ==
    /\ callPc = "raised"
    /\ call_error = "OperationalError"
    /\ call_attempts = MaxAttempts
    /\ method_invocations = MaxAttempts
    /\ actorState[call_target] = "initialized"

\* start() finds no infrastructure class for the process classes, or no
\* DB_URI in the runner's db_uri or the environment.
ConfigurationMissing ==
    \/ ~config.infrastructure_class
    \/ ~config.db_uri /\ ~config.env_db_uri

\* C16: when the configuration is missing, start() aborts and no actor is
\* ever spawned, and init() and run() are submitted to and executed by none.
C16_FailFastStart ==
    ConfigurationMissing =>
        /\ runnerPc \in {"start", "failed"}
        /\ ray_processes = {}
        /\ init_ids = {}
        /\ run_ids = {}
        /\ \A k \in ActorKeys : actorState[k] = "none" /\ mailbox[k] = << >>

\* C16 witness: start() has aborted with an infrastructure class set and no
\* DB_URI in the runner or the environment.
C16_Witness ==
    /\ runnerPc = "failed"
    /\ config.infrastructure_class
    /\ ~config.db_uri
    /\ ~config.env_db_uri

\* init() has run on the actor k.
Wired(k) == actorState[k] \in {"initialized", "running"}

\* C19: every initialized actor (P, i) holds one upstream log per upstream
\* name of P in the topology, that of actor (name, i), and the handles of
\* exactly the actors (name, i) for the downstream names of P; and every
\* prompt is delivered to a downstream neighbour, in the same pipeline, of a
\* running actor.
C19_WiringFollowsTopology ==
    /\ [](\A k \in ActorKeys : Wired(k) =>
             /\ upstream_logs[k] = {<< n, k[2] >> : n \in upstream_names[k[1]]}
             /\ downstream_processes[k] = {<< n, k[2] >> : n \in downstream_names[k[1]]})
    /\ [][\A d \in prompt_delivered' \ prompt_delivered :
             \E k \in ActorKeys :
                /\ actorState[k] = "running"
                /\ k[2] = d[2]
                /\ d[1] \in downstream_names[k[1]]]_vars

\* C19 witness: start() has returned, and in each pipeline the downstream
\* actor has been prompted.
C19_Witness ==
    /\ runnerPc = "started"
    /\ \A k \in ActorKeys : actorState[k] = "running"
    /\ prompt_delivered = {<< "Q", 0 >>, << "Q", 1 >>}

=============================================================================
